---- MODULE Spec2Model ----
(***************************************************************************)
(* Multi-provider fallback dispatch of ARQV30 Enhanced v2.0:               *)
(* services/ai_manager.py (AIManager) and services/groq_client.py, with    *)
(* the progress tracking of routes/progress.py, the AI part of             *)
(* services/health_checker.py and execute_synchronized_analysis of         *)
(* services/super_orchestrator.py.                                         *)
(* Texts are TLA+ strings; an Optional[str] is a record [none, text].      *)
(***************************************************************************)
EXTENDS Integers, Sequences, FiniteSets, TLC

---------------------------------------------------------------------------
(* Bounds of the model *)

\* number of generate_content calls made in one behaviour
MaxCalls == 3
\* number of request-handling threads that may call ai_manager
NumThreads == 2

\* number of requests the progress routes serve in one behaviour
MaxRequests == 3

\* number of synchronized analyses started in one behaviour
MaxAnalyses == 2

Threads == 1..NumThreads

---------------------------------------------------------------------------
(* State *)

VARIABLES
    providers,          \* self.providers: name -> entry
    fallback_order,     \* self.fallback_order
    disabled_providers, \* self.disabled_providers
    call,               \* per thread: the generate_content call it is running
    calls,              \* number of generate_content calls started so far
    status,             \* value last returned by get_provider_status
    trace,              \* per provider: the outcomes recorded for it, oldest first
    progress_sessions,  \* routes/progress.py: session id -> its tracker
    progress_queues,    \* routes/progress.py: session id -> its queue of updates
    progress_lock,      \* routes/progress.py: the thread that holds the lock
    tracker_objects,    \* the ProgressTracker objects created so far
    req,                \* per thread: the progress request it is serving
    requests,           \* number of progress requests received so far
    analysis,           \* per thread: the synchronized analysis it is running
    execution_state,    \* super_orchestrator.execution_state: session id -> status
    analyses            \* number of synchronized analyses started so far

\* the state of services/ai_manager.py
manager_vars == <<providers, fallback_order, disabled_providers, call, calls, status, trace>>

\* the state of routes/progress.py
progress_vars == <<progress_sessions, progress_queues, progress_lock, tracker_objects,
                   req, requests>>

\* the state of services/super_orchestrator.py and services/health_checker.py
service_vars == <<analysis, execution_state, analyses>>

vars == <<manager_vars, progress_vars, service_vars>>

---------------------------------------------------------------------------
(* Python values *)

None == [none |-> TRUE, text |-> ""]
Str(s) == [none |-> FALSE, text |-> s]

\* truth value of an Optional[str] in a condition: None and "" are falsy
Truthy(v) == (~v.none) /\ v.text # ""

IsSpace(c) == c \in {" ", "\n", "\t"}

RECURSIVE LStrip(_)
LStrip(s) ==
    IF Len(s) > 0 /\ IsSpace(SubSeq(s, 1, 1))
    THEN LStrip(SubSeq(s, 2, Len(s)))
    ELSE s

RECURSIVE RStrip(_)
RStrip(s) ==
    IF Len(s) > 0 /\ IsSpace(SubSeq(s, Len(s), Len(s)))
    THEN RStrip(SubSeq(s, 1, Len(s) - 1))
    ELSE s

\* str.strip()
strip(s) == RStrip(LStrip(s))

UpperChars == "ABCDEFGHIJKLMNOPQRSTUVWXYZÁÂÃÇÉÊÍÓÔÕÚ"
LowerChars == "abcdefghijklmnopqrstuvwxyzáâãçéêíóôõú"

\* the lower-case letter of each upper-case letter
LowerOf ==
    [c \in {SubSeq(UpperChars, i, i) : i \in 1..Len(UpperChars)} |->
        LET i == CHOOSE j \in 1..Len(UpperChars) : SubSeq(UpperChars, j, j) = c
        IN  SubSeq(LowerChars, i, i)]

LowerChar(c) == IF c \in DOMAIN LowerOf THEN LowerOf[c] ELSE c

RECURSIVE lower(_)
\* str.lower(), character by character; the string is halved to keep the
\* evaluation shallow
lower(s) ==
    IF Len(s) = 0 THEN ""
    ELSE IF Len(s) = 1 THEN LowerChar(s)
    ELSE lower(SubSeq(s, 1, Len(s) \div 2)) \o lower(SubSeq(s, Len(s) \div 2 + 1, Len(s)))

\* Python's  kw in s  on strings
Contains(kw, s) ==
    \E i \in 1..(Len(s) - Len(kw) + 1) : SubSeq(s, i, i + Len(kw) - 1) = kw

\* Python's  s[:n]
Prefix(s, n) == IF Len(s) <= n THEN s ELSE SubSeq(s, 1, n)

---------------------------------------------------------------------------
(* AIManager._generate_basic_response *)

DriversResponse ==
    "[\n"
    \o "                {\"nome\": \"Crescimento Seguro\", \"gatilho_central\": \"Medo de falha\", \"definicao_visceral\": \"Superar obstáculos com confiança\"},\n"
    \o "                {\"nome\": \"Potencial Desbloqueado\", \"gatilho_central\": \"Desejo de crescimento\", \"definicao_visceral\": \"Liberar capacidades ocultas\"},\n"
    \o "                {\"nome\": \"Direção Clara\", \"gatilho_central\": \"Incerteza\", \"definicao_visceral\": \"Encontrar caminho para sucesso\"}\n"
    \o "            ]"

ProofsResponse ==
    "[\n"
    \o "                {\"nome\": \"Prova de Urgência\", \"categoria\": \"urgencia\", \"objetivo\": \"Criar senso de urgência\"},\n"
    \o "                {\"nome\": \"Prova Social\", \"categoria\": \"social\", \"objetivo\": \"Validação por pares\"},\n"
    \o "                {\"nome\": \"Prova de Autoridade\", \"categoria\": \"autoridade\", \"objetivo\": \"Demonstrar expertise\"}\n"
    \o "            ]"

ObjectionsResponse ==
    "[\n"
    \o "                {\"objecao\": \"Não tenho tempo\", \"categoria\": \"tempo\", \"resposta\": \"Foque no valor do tempo\"},\n"
    \o "                {\"objecao\": \"Muito caro\", \"categoria\": \"dinheiro\", \"resposta\": \"Mostre o ROI\"},\n"
    \o "                {\"objecao\": \"Preciso pensar\", \"categoria\": \"necessidade\", \"resposta\": \"Crie urgência\"}\n"
    \o "            ]"

PitchResponse ==
    "{\n"
    \o "                \"fases\": [\n"
    \o "                    {\"fase\": \"quebra\", \"objetivo\": \"Quebrar ilusão\", \"script\": \"A realidade é diferente do que parece\"},\n"
    \o "                    {\"fase\": \"exposicao\", \"objetivo\": \"Mostrar problema\", \"script\": \"Aqui está o verdadeiro desafio\"},\n"
    \o "                    {\"fase\": \"solucao\", \"objetivo\": \"Apresentar solução\", \"script\": \"Esta é a resposta\"}\n"
    \o "                ]\n"
    \o "            }"

AvatarResponse ==
    "\n"
    \o "            Avatar Empresarial:\n"
    \o "            - Perfil: Empreendedor entre 35-45 anos\n"
    \o "            - Dores: Sobrecarga, medo de falha, dificuldade para delegar\n"
    \o "            - Desejos: Crescimento sustentável, liberdade financeira, reconhecimento\n"
    \o "            - Medos: Perder controle, falhar, não ser visto como líder\n"
    \o "            "

ForecastResponse ==
    "{\n"
    \o "                \"cenarios\": {\n"
    \o "                    \"curto_prazo\": {\"tendencias\": [\"Digitalização\", \"Automação\"], \"oportunidades\": [\"Nichos específicos\"]},\n"
    \o "                    \"medio_prazo\": {\"tendencias\": [\"IA mainstream\", \"Sustentabilidade\"], \"oportunidades\": [\"Parcerias estratégicas\"]},\n"
    \o "                    \"longo_prazo\": {\"tendencias\": [\"Economia digital\"], \"oportunidades\": [\"Mercados globais\"]}\n"
    \o "                }\n"
    \o "            }"

CodeResponse ==
    "\n"
    \o "            Recomendações de Código para Exclusão:\n"
    \o "            - Funções redundantes ou não utilizadas.\n"
    \o "            - Módulos com funcionalidade obsoleta.\n"
    \o "            - Configurações de API que não estão mais em uso.\n"
    \o "            - Arquivos de log ou temporários de longa data.\n"
    \o "            - Bibliotecas desatualizadas sem planos de atualização.\n"
    \o "            "

PromptTruncation == 100

\* a placeholder that tells how many providers are disabled
GenericResponse_Stateful(prompt) ==
    "Análise básica para: " \o Prefix(prompt, PromptTruncation)
    \o "... - " \o ToString(Cardinality(disabled_providers)) \o " provedores desabilitados."

GenericResponse(prompt) ==
    "Análise básica para: " \o Prefix(prompt, PromptTruncation)
    \o "... - Sistema funcionando em modo básico. Configure APIs para análise completa."

\* 'a' in prompt.lower() or 'b' in prompt.lower() or ...
HasAny(kws, prompt_lower) == \E kw \in kws : Contains(kw, prompt_lower)

_generate_basic_response(prompt) ==
    LET prompt_lower == lower(prompt)
    IN  IF HasAny({"driver", "direção", "navegação"}, prompt_lower) THEN DriversResponse
        ELSE IF HasAny({"prova", "visual", "evidência"}, prompt_lower) THEN ProofsResponse
        ELSE IF HasAny({"objeção", "objection", "impedimento"}, prompt_lower) THEN ObjectionsResponse
        ELSE IF HasAny({"pitch", "apresentação"}, prompt_lower) THEN PitchResponse
        ELSE IF HasAny({"avatar", "persona"}, prompt_lower) THEN AvatarResponse
        ELSE IF HasAny({"previsão", "futuro", "tendências"}, prompt_lower) THEN ForecastResponse
        ELSE IF HasAny({"código", "excluir", "remover"}, prompt_lower) THEN CodeResponse
        ELSE GenericResponse(prompt)

---------------------------------------------------------------------------
(* The registry of AIManager *)

ProviderNames == {"gemini", "openai", "groq", "huggingface"}

\* a set-up that appends gemini a second time
InitializationOrder_Repeated == <<"gemini", "openai", "groq", "huggingface", "gemini">>

\* the order in which _initialize_providers handles the providers
InitializationOrder == <<"gemini", "openai", "groq", "huggingface">>

\* the literals of the four provider dicts
ProviderConfig ==
    [gemini      |-> [priority |-> 1, max_errors |-> 2],
     openai      |-> [priority |-> 3, max_errors |-> 2],
     groq        |-> [priority |-> 2, max_errors |-> 2],
     huggingface |-> [priority |-> 4, max_errors |-> 3]]

\* providers['huggingface']['models']
HfModels == <<"HuggingFaceH4/zephyr-7b-beta", "google/flan-t5-base">>

\* float('inf'), the sort key of a name without a priority
Infinity == 1000000

\* default of .get('max_errors', 2) in _register_failure
DefaultMaxErrors == 2

\* a name that is not a key of self.providers
AbsentEntry ==
    [present |-> FALSE, configured |-> FALSE, available |-> FALSE,
     priority |-> 0, max_errors |-> 0, consecutive_failures |-> 0,
     error |-> "", current_model_index |-> 0]

\* {'available': False, 'error': str(e)}
FailedEntry(err) ==
    [AbsentEntry EXCEPT !.present = TRUE, !.error = err]

\* the dict stored for a provider whose set-up succeeded
ConfiguredEntry(name) ==
    [present |-> TRUE, configured |-> TRUE, available |-> TRUE,
     priority |-> ProviderConfig[name].priority,
     max_errors |-> ProviderConfig[name].max_errors,
     consecutive_failures |-> 0,
     error |-> "", current_model_index |-> 0]

\* self.providers.get(p, {}).get('priority', float('inf'))
PriorityKey(provs, name) ==
    IF provs[name].present /\ provs[name].configured
    THEN provs[name].priority
    ELSE Infinity

RECURSIVE InsertByKey(_, _, _)
\* x goes before the first element with a strictly larger key
InsertByKey(x, s, key) ==
    IF s = <<>> THEN <<x>>
    ELSE IF key[x] < key[Head(s)] THEN <<x>> \o s
    ELSE <<Head(s)>> \o InsertByKey(x, Tail(s), key)

\* the list left as the appends built it
StableSort_Unsorted(s, key) == s

RECURSIVE StableSort(_, _)
\* list.sort(key=...): ascending, equal keys keep their order
StableSort(s, key) ==
    IF s = <<>> THEN <<>>
    ELSE InsertByKey(s[Len(s)], StableSort(SubSeq(s, 1, Len(s) - 1), key), key)

RECURSIVE SelectSeq2(_, _)
\* the names of s that are in set S, in the order of s
SelectSeq2(s, S) ==
    IF s = <<>> THEN <<>>
    ELSE IF Head(s) \in S THEN <<Head(s)>> \o SelectSeq2(Tail(s), S)
    ELSE SelectSeq2(Tail(s), S)

\* what the set-up of one provider can end in: registered ("ok"), an entry
\* {'available': False, 'error': ...} ("failed": the library is missing or
\* the test request raised), or no entry at all ("absent": the API key is
\* not set); groq gets an entry on every path
SetupOutcomes(name) ==
    CASE name = "gemini"      -> {"ok", "absent"}
      [] name = "openai"      -> {"ok", "failed"}
      [] name = "groq"        -> {"ok", "failed"}
      [] name = "huggingface" -> {"ok", "absent"}

SetupError(name) ==
    IF name = "groq" THEN "Cliente não configurado ou desabilitado"
    ELSE "Biblioteca não instalada"

\* self.providers after _initialize_providers, for the set-up outcomes o
InitialProviders(o) ==
    [name \in ProviderNames |->
        CASE o[name] = "ok"     -> ConfiguredEntry(name)
          [] o[name] = "failed" -> FailedEntry(SetupError(name))
          [] OTHER              -> AbsentEntry]

\* self.fallback_order after _initialize_providers: the appends, then the sort
InitialFallbackOrder(o) ==
    LET appended == SelectSeq2(InitializationOrder, {n \in ProviderNames : o[n] = "ok"})
        provs    == InitialProviders(o)
        key      == [n \in ProviderNames |-> PriorityKey(provs, n)]
    IN  StableSort(appended, key)

---------------------------------------------------------------------------
(* routes/progress.py: the trackers, the two global dicts and their lock.
   The request server gives each request to a thread of its own. *)

\* self.total_steps
total_steps == 13

\* session ids the clients send
SessionIds == {"s1", "s2"}

\* values of  step  the clients send to /update
Steps == {5, 20}

\* progress_sessions has no such key
NoTracker == 0

\* progress_queues has no such key
NoQueue == [present |-> FALSE, items |-> <<>>, puts |-> 0, taken |-> <<>>]

\* Queue(); with the items it holds the model keeps how many were put into
\* it and which ones a poll has taken out of it, in the order of the takes
EmptyQueue == [present |-> TRUE, items |-> <<>>, puts |-> 0, taken |-> <<>>]

\* progress_lock is not held
Free == 0

\* a thread that is serving no request
IdleRequest ==
    [op |-> "", pc |-> "idle", session_id |-> "", step |-> 0, force |-> FALSE,
     tracker |-> NoTracker, result |-> "", updates |-> <<>>]

\* the module as imported: two empty dicts and a lock nobody holds
ProgressInit ==
    /\ progress_sessions = [s \in SessionIds |-> NoTracker]
    /\ progress_queues = [s \in SessionIds |-> NoQueue]
    /\ progress_lock = Free
    /\ tracker_objects = <<>>
    /\ req = [t \in Threads |-> IdleRequest]
    /\ requests = 0

\* the names _check_ai_providers goes through
CheckedProviders == <<"gemini", "openai", "groq", "huggingface">>

\* execution_state has no such key
NoState == ""

\* the providers dict of _check_ai_providers before the first test
NoReport == [i \in 1..Len(CheckedProviders) |-> ""]

\* a thread that is running no synchronized analysis
IdleAnalysis ==
    [pc |-> "idle", session_id |-> "", index |-> 0, providers |-> NoReport,
     before |-> [name \in ProviderNames |-> [available |-> FALSE, consecutive_failures |-> 0]],
     disabled_before |-> {}, result |-> "", raised |-> FALSE]

\* SuperOrchestrator.__init__: no analysis has been started
ServiceInit ==
    /\ analysis = [t \in Threads |-> IdleAnalysis]
    /\ execution_state = [s \in SessionIds |-> NoState]
    /\ analyses = 0

---------------------------------------------------------------------------
(* The state after construction *)

\* a thread that is not inside generate_content
IdleCall ==
    [pc |-> "idle", prompt |-> "", idx |-> 0, cur |-> "", tmp |-> 0,
     exc |-> "", healthy |-> FALSE, received |-> None, result |-> None,
     raised |-> FALSE, by |-> "", tried |-> <<>>,
     before |-> [name \in ProviderNames |-> [available |-> FALSE, consecutive_failures |-> 0]]]

NoStatus == [name \in ProviderNames |-> ""]

Init ==
    \E o \in {f \in [ProviderNames -> {"ok", "failed", "absent"}] :
                 \A n \in ProviderNames : f[n] \in SetupOutcomes(n)} :
        /\ providers = InitialProviders(o)
        /\ fallback_order = InitialFallbackOrder(o)
        /\ disabled_providers = {}
        /\ call = [t \in Threads |-> IdleCall]
        /\ calls = 0
        /\ status = NoStatus
        /\ trace = [name \in ProviderNames |-> <<>>]
        /\ ProgressInit
        /\ ServiceInit

---------------------------------------------------------------------------
(* What a backend can answer *)

\* texts a backend may send back
SampleTexts ==
    {"", " \n ", "0123456789", " 0123456789 ", "\t0123456789a \n"}

\* exception classes a client library may raise, all subclasses of Exception
ClientExceptions == {"ConnectionError"}

\* the classes an  except Exception  clause catches
ExceptionSubclasses == {"Exception", "TypeError"} \cup ClientExceptions

\* answer of the Gemini, OpenAI or Groq service to one request
RemoteOutcomes ==
    [kind : {"raise"}, exc : ClientExceptions, text : {None}]
    \cup [kind : {"return"}, exc : {""}, text : {None} \cup {Str(s) : s \in SampleTexts}]

\* answer of the HuggingFace inference API for one model
HfOutcomes ==
    [kind : {"raise", "503", "error"}, text : {""}]
    \cup [kind : {"200"}, text : {"", "0123456789", "\t0123456789a \n"}]

HfIndexes == 0..(Len(HfModels) - 1)

\* outcome of the code between  try:  and the length check
Raised(e, msg) == [exc |-> e, msg |-> msg, text |-> None]
Returned(v) == [exc |-> "", msg |-> "", text |-> v]

\* str(e) of an exception raised by a client library
Message(e) == e \o ": request failed"

\* response.text of Gemini, response.choices[0].message.content of OpenAI
LibraryCall(remote) ==
    IF remote.kind = "raise" THEN Raised(remote.exc, Message(remote.exc))
    ELSE Returned(remote.text)

---------------------------------------------------------------------------
(* services/groq_client.py *)

\* parameters of GroqClient.generate besides self
GroqGenerateParameters == {"prompt", "max_tokens"}

\* arguments AIManager.generate_content passes to client.generate
GroqCallArguments == {"prompt", "max_tokens", "temperature"}

\* GroqClient._make_request: every failure becomes None
_make_request(remote) ==
    IF remote.kind = "raise" THEN None ELSE remote.text

\* GroqClient.generate called with the keyword arguments args
GroqGenerate(args, available, remote) ==
    IF ~(args \subseteq GroqGenerateParameters)
    THEN Raised("TypeError", "generate() got an unexpected keyword argument 'temperature'")
    ELSE IF ~available THEN Returned(None)
    ELSE Returned(_make_request(remote))

---------------------------------------------------------------------------
(* The HuggingFace branch of generate_content *)

RECURSIVE HfRotate(_, _, _)
\* the loop over the models: i-th iteration, started at model_index,
\* outs[m] is the answer of model m; gives the text, the index left behind
\* and the models a request was posted to, in the order of the requests
HfRotate(i, model_index, outs) ==
    LET current_model_idx == (model_index + i) % Len(HfModels)
        o == outs[current_model_idx]
    IN  IF o.kind = "200" /\ o.text # ""
        THEN [text |-> Str(o.text), index |-> current_model_idx,
              posted |-> <<current_model_idx>>]
        ELSE IF i + 1 >= Len(HfModels)
        THEN [text |-> None, index |-> current_model_idx,
              posted |-> <<current_model_idx>>]
        ELSE [HfRotate(i + 1, model_index, outs) EXCEPT
                 !.posted = <<current_model_idx>> \o @]

HfCall(model_index, outs) ==
    LET r == HfRotate(0, model_index, outs)
    IN  IF r.text.none
        THEN Raised("Exception", "Todos os modelos HuggingFace falharam após tentativas.")
        ELSE Returned(r.text)

---------------------------------------------------------------------------
(* AIManager._register_success and AIManager._register_failure *)

\* .get('max_errors', 2)
MaxErrorsOf(entry) ==
    IF entry.configured THEN entry.max_errors ELSE DefaultMaxErrors

\* a success that leaves the counter alone
_register_success_Keep(provs, provider_name) == provs

_register_success(provs, provider_name) ==
    IF provs[provider_name].present
    THEN [provs EXCEPT ![provider_name].consecutive_failures = 0]
    ELSE provs

\* a threshold test that is off by one
ReachedMaxErrors_Strict(entry) == entry.consecutive_failures > MaxErrorsOf(entry)

\* the test that disables a provider
ReachedMaxErrors(entry) == entry.consecutive_failures >= MaxErrorsOf(entry)

\* a failure that is counted against every provider of the registry
_register_failure_Shared(provs, disabled, provider_name, count, error) ==
    [providers |-> [name \in ProviderNames |->
                       IF provs[name].present
                       THEN [provs[name] EXCEPT !.consecutive_failures = count, !.error = error]
                       ELSE provs[name]],
     disabled  |-> disabled]

\* the stores of _register_failure once the new counter value is computed;
\* gives the new self.providers and self.disabled_providers
_register_failure(provs, disabled, provider_name, count, error) ==
    IF ~provs[provider_name].present
    THEN [providers |-> provs, disabled |-> disabled]
    ELSE LET stored == [provs EXCEPT ![provider_name].consecutive_failures = count,
                                     ![provider_name].error = error]
         IN  IF ReachedMaxErrors(stored[provider_name])
             THEN [providers |-> [stored EXCEPT ![provider_name].available = FALSE],
                   disabled  |-> disabled \cup {provider_name}]
             ELSE [providers |-> stored, disabled |-> disabled]

---------------------------------------------------------------------------
(* AIManager.generate_content *)

\* len(response_text.strip()) > 10
MinLength == 10

\* a test for None only
IsAcceptable_NotNone(v) == ~v.none

\* a length test that lets a text of exactly the minimum through
IsAcceptable_AtLeast(v) == Truthy(v) /\ Len(strip(v.text)) >= MinLength

\* a length test on the text as received
IsAcceptable_NoStrip(v) == Truthy(v) /\ Len(v.text) > MinLength

\* the test a provider's text has to pass to be returned
IsAcceptable(v) == Truthy(v) /\ Len(strip(v.text)) > MinLength

\* a handler that catches the base class only
ExceptExceptionCatches_Narrow(e) == e = "Exception"

\* an  except Exception  clause catches the exception of class e
ExceptExceptionCatches(e) == e \in ExceptionSubclasses

\* a loop that tests only that the entry exists
Eligible_NoSkip(provider_name) == providers[provider_name].present

\* the except clause of the loop body, around one provider's attempt
InnerHandlerCatches(e) == ExceptExceptionCatches(e)

\* the except clause around the whole of generate_content
OuterHandlerCatches(e) == ExceptExceptionCatches(e)

\* the two tests at the head of the loop body are passed
Eligible(provider_name) ==
    /\ provider_name \notin disabled_providers
    /\ providers[provider_name].present
    /\ providers[provider_name].available

\* what the environment decides for one invocation of a provider
EnvChoices(provider_name) ==
    IF provider_name = "huggingface" THEN [HfIndexes -> HfOutcomes]
    ELSE RemoteOutcomes

\* the branch of the if/elif chain on provider_name, up to response_text
ClientCall(provider_name, entry, env) ==
    CASE provider_name = "gemini" -> LibraryCall(env)
      [] provider_name = "groq"   -> GroqGenerate(GroqCallArguments, entry.configured, env)
      [] provider_name = "openai" -> LibraryCall(env)
      [] provider_name = "huggingface" -> HfCall(entry.current_model_index, env)
      [] OTHER -> Returned(None)

\* the index stays where the call found it
ModelIndexAfter_Keep(provider_name, entry, env) == entry.current_model_index

\* provider_info['current_model_index'] after the call
ModelIndexAfter(provider_name, entry, env) ==
    IF provider_name = "huggingface"
    THEN HfRotate(0, entry.current_model_index, env).index
    ELSE entry.current_model_index

\* the backend would have served the request with a text that passes the check
Healthy(provider_name, env) ==
    IF provider_name = "huggingface"
    THEN \A m \in HfIndexes :
            env[m].kind = "200" /\ Len(strip(env[m].text)) > MinLength
    ELSE env.kind = "return" /\ (~env.text.none) /\ Len(strip(env.text.text)) > MinLength

\* what the provider did, as seen from the outside: it raised, it returned
\* nothing usable (None, "" or at most 10 characters besides the padding),
\* or it returned a text
OutcomeKind(a) ==
    IF a.exc # "" THEN "raised"
    ELSE IF a.text.none \/ a.text.text = "" \/ Len(strip(a.text.text)) <= MinLength THEN "invalid"
    ELSE "text"

\* prompts the callers pass
Prompts == {"Test", "Liste os DRIVERS mentais",
            "0123456789012345678901234567890123456789012345678901234567890123456789012345678901234567890123456789 fim"}

\* the record of the attempt in progress gets its outcome
SetOutcome(tried, o, h) == [tried EXCEPT ![Len(tried)].outcome = o, ![Len(tried)].healthy = h]

\* availability and counters as they are when a call starts
Snapshot(provs) ==
    [name \in ProviderNames |->
        [available |-> provs[name].present /\ provs[name].available,
         consecutive_failures |-> provs[name].consecutive_failures]]

\* a thread enters generate_content with one of the prompts
BeginWith(t, prompts) ==
    /\ call[t].pc = "idle"
    /\ calls < MaxCalls
    /\ \E prompt \in prompts :
          call' = [call EXCEPT ![t] = [IdleCall EXCEPT !.pc = "loop", !.prompt = prompt,
                                                       !.idx = 1, !.before = Snapshot(providers)]]
    /\ calls' = calls + 1
    /\ status' = NoStatus
    /\ UNCHANGED <<providers, fallback_order, disabled_providers, trace>>
    /\ UNCHANGED <<progress_vars, service_vars>>

\* the provider at the loop position is disabled or unavailable: continue
Skip(t) ==
    /\ call[t].pc = "loop"
    /\ call[t].idx <= Len(fallback_order)
    /\ ~Eligible(fallback_order[call[t].idx])
    /\ call' = [call EXCEPT ![t].idx = @ + 1]
    /\ UNCHANGED <<providers, fallback_order, disabled_providers, calls, status, trace>>
    /\ UNCHANGED <<progress_vars, service_vars>>

\* the provider at the loop position passes both tests: the try block is entered
Enter(t) ==
    /\ call[t].pc = "loop"
    /\ call[t].idx <= Len(fallback_order)
    /\ Eligible(fallback_order[call[t].idx])
    /\ call' = [call EXCEPT ![t].pc = "try", ![t].cur = fallback_order[call[t].idx]]
    /\ UNCHANGED <<providers, fallback_order, disabled_providers, calls, status, trace>>
    /\ UNCHANGED <<progress_vars, service_vars>>

\* the request to the provider's client is issued
Invoke(t) ==
    /\ call[t].pc = "try"
    /\ call' = [call EXCEPT ![t].pc = "inflight",
                            ![t].tried = Append(@, [name |-> call[t].cur, outcome |-> "pending",
                                                             healthy |-> FALSE])]
    /\ UNCHANGED <<providers, fallback_order, disabled_providers, calls, status, trace>>
    /\ UNCHANGED <<progress_vars, service_vars>>

\* the client call ends; the length check, and either the return of the
\* stripped text or the entry into an except clause: the one of the loop
\* body, else the outer one with the basic response, else the exception
\* leaves generate_content
Respond(t) ==
    /\ call[t].pc = "inflight"
    /\ LET provider_name == call[t].cur
           entry == providers[provider_name]
       IN  \E env \in EnvChoices(provider_name) :
            LET a == ClientCall(provider_name, entry, env)
                after == [providers EXCEPT ![provider_name].current_model_index =
                              ModelIndexAfter(provider_name, entry, env)]
                e == IF a.exc # "" THEN a
                     ELSE Raised("Exception", "Resposta vazia ou muito curta do provedor.")
                kind == OutcomeKind(a)
            IN  IF a.exc = "" /\ IsAcceptable(a.text)
                THEN /\ providers' = _register_success(after, provider_name)
                     /\ call' = [call EXCEPT ![t].pc = "done",
                                             ![t].result = Str(strip(a.text.text)),
                                             ![t].by = provider_name,
                                             ![t].received = a.text,
                                             ![t].tried = SetOutcome(@, kind, Healthy(provider_name, env))]
                     /\ trace' = [trace EXCEPT ![provider_name] =
                                     Append(@, [healthy |-> Healthy(provider_name, env),
                                                accepted |-> TRUE])]
                ELSE IF InnerHandlerCatches(e.exc)
                THEN /\ providers' = after
                     /\ call' = [call EXCEPT ![t].pc = "failed",
                                             ![t].exc = e.msg,
                                             ![t].healthy = Healthy(provider_name, env),
                                             ![t].received = a.text,
                                             ![t].tried = SetOutcome(@, kind, Healthy(provider_name, env))]
                     /\ trace' = trace
                ELSE IF OuterHandlerCatches(e.exc)
                THEN /\ providers' = after
                     /\ call' = [call EXCEPT ![t].pc = "done",
                                             ![t].result = Str(_generate_basic_response(call[t].prompt)),
                                             ![t].by = "basic",
                                             ![t].received = a.text,
                                             ![t].tried = SetOutcome(@, kind, Healthy(provider_name, env))]
                     /\ trace' = trace
                ELSE /\ providers' = after
                     /\ call' = [call EXCEPT ![t].pc = "done",
                                             ![t].raised = TRUE,
                                             ![t].by = "",
                                             ![t].received = a.text,
                                             ![t].tried = SetOutcome(@, kind, Healthy(provider_name, env))]
                     /\ trace' = trace
    /\ UNCHANGED <<fallback_order, disabled_providers, calls, status>>
    /\ UNCHANGED <<progress_vars, service_vars>>

\* _register_failure reads the counter and adds one; response_text is out of
\* use from here on
RegisterFailureRead(t) ==
    /\ call[t].pc = "failed"
    /\ call' = [call EXCEPT ![t].pc = "register",
                            ![t].received = None,
                            ![t].tmp = providers[call[t].cur].consecutive_failures + 1]
    /\ UNCHANGED <<providers, fallback_order, disabled_providers, calls, status, trace>>
    /\ UNCHANGED <<progress_vars, service_vars>>

\* _register_failure stores the counter and the error, disables the provider
\* at the threshold; the loop continues with the next provider
RegisterFailureWrite(t) ==
    /\ call[t].pc = "register"
    /\ LET r == _register_failure(providers, disabled_providers, call[t].cur,
                                  call[t].tmp, call[t].exc)
       IN  /\ providers' = r.providers
           /\ disabled_providers' = r.disabled
    /\ trace' = [trace EXCEPT ![call[t].cur] =
                    Append(@, [healthy |-> call[t].healthy, accepted |-> FALSE])]
    /\ call' = [call EXCEPT ![t].pc = "loop", ![t].idx = @ + 1, ![t].cur = "",
                            ![t].tmp = 0, ![t].exc = "", ![t].healthy = FALSE]
    /\ UNCHANGED <<fallback_order, calls, status>>
    /\ UNCHANGED <<progress_vars, service_vars>>

\* the loop is over: the basic response is returned
Exhausted(t) ==
    /\ call[t].pc = "loop"
    /\ call[t].idx > Len(fallback_order)
    /\ call' = [call EXCEPT ![t].pc = "done",
                            ![t].result = Str(_generate_basic_response(call[t].prompt)),
                            ![t].by = "basic"]
    /\ UNCHANGED <<providers, fallback_order, disabled_providers, calls, status, trace>>
    /\ UNCHANGED <<progress_vars, service_vars>>

\* the caller takes the returned value
Return(t) ==
    /\ call[t].pc = "done"
    /\ call' = [call EXCEPT ![t] = IdleCall]
    /\ UNCHANGED <<providers, fallback_order, disabled_providers, calls, status, trace>>
    /\ UNCHANGED <<progress_vars, service_vars>>

---------------------------------------------------------------------------
(* AIManager.get_provider_status *)

NoCallRunning == \A t \in Threads : call[t].pc = "idle"

StatusOf(entry) ==
    IF ~entry.present THEN ""
    ELSE IF entry.available THEN "available"
    ELSE "unavailable (" \o (IF entry.error = "" THEN "N/A" ELSE entry.error) \o ")"

get_provider_status ==
    /\ NoCallRunning
    /\ status' = [name \in ProviderNames |-> StatusOf(providers[name])]
    /\ status' # status
    /\ UNCHANGED <<providers, fallback_order, disabled_providers, call, calls, trace>>
    /\ UNCHANGED <<progress_vars, service_vars>>

---------------------------------------------------------------------------
(* Specification: callers run generate_content one at a time *)

BeginAlone(t) == NoCallRunning /\ BeginWith(t, Prompts)

\* the thread that makes the calls when calls do not overlap
MainThread == 1

Next ==
    \/ \E t \in {MainThread} :
          \/ BeginAlone(t)
          \/ Skip(t)
          \/ Enter(t)
          \/ Invoke(t)
          \/ Respond(t)
          \/ RegisterFailureRead(t)
          \/ RegisterFailureWrite(t)
          \/ Exhausted(t)
          \/ Return(t)
    \/ get_provider_status

Spec == Init /\ [][Next]_vars

---------------------------------------------------------------------------
(* Vocabulary of the properties *)

\* the providers whose set-up succeeded
Registered == {name \in ProviderNames : providers[name].configured}

\* position of a name in a sequence without repetitions, 0 if it is not there
PositionIn(s, name) ==
    IF \E i \in DOMAIN s : s[i] = name
    THEN CHOOSE i \in DOMAIN s : s[i] = name
    ELSE 0

\* the providers invoked so far by the call of thread t
TriedNames(t) == {call[t].tried[i].name : i \in DOMAIN call[t].tried}

RECURSIVE TrailingFailures(_)
\* number of failures recorded for a provider since its last success
TrailingFailures(tr) ==
    IF tr = <<>> \/ tr[Len(tr)].accepted THEN 0
    ELSE 1 + TrailingFailures(SubSeq(tr, 1, Len(tr) - 1))

Returned_(t) == call[t].pc = "done" /\ ~call[t].raised

---------------------------------------------------------------------------
(* C1 *)

\* C1: generate_content never raises to its caller: whatever the prompt, the
\* registry and the outcomes of the providers, no call ends in an exception.
C1_NeverRaises == \A t \in Threads : ~call[t].raised

\* a call returned although a provider it invoked raised
C1_Witness ==
    \E t \in Threads :
        /\ Returned_(t)
        /\ \E i \in DOMAIN call[t].tried : call[t].tried[i].outcome = "raised"

---------------------------------------------------------------------------
(* C2 *)

\* C2: every value returned by generate_content is non-null and has length
\* at least 1.
C2_ResultNonEmpty ==
    \A t \in Threads :
        Returned_(t) => (~call[t].result.none) /\ Len(call[t].result.text) >= 1

\* a provider's padded text was returned stripped
C2_Witness ==
    \E t \in Threads :
        /\ Returned_(t)
        /\ call[t].by \in ProviderNames
        /\ call[t].result = Str("0123456789a")

---------------------------------------------------------------------------
(* C3 *)

SortedByPriority(order) ==
    \A i, j \in DOMAIN order :
        i < j => PriorityKey(providers, order[i]) <= PriorityKey(providers, order[j])

TiesKeepRegistrationOrder(order) ==
    \A i, j \in DOMAIN order :
        (i < j /\ PriorityKey(providers, order[i]) = PriorityKey(providers, order[j]))
            => PositionIn(InitializationOrder, order[i]) < PositionIn(InitializationOrder, order[j])

ExactlyTheRegistered(order) ==
    /\ {order[i] : i \in DOMAIN order} = Registered
    /\ \A i, j \in DOMAIN order : order[i] = order[j] => i = j

\* the attempts of a call follow fallback_order, and no provider that could
\* be used is passed over
AttemptsFollowOrder(t) ==
    /\ \A i, j \in DOMAIN call[t].tried :
          i < j => PositionIn(fallback_order, call[t].tried[i].name)
                     < PositionIn(fallback_order, call[t].tried[j].name)
    /\ \A k \in DOMAIN fallback_order :
          (call[t].pc \in {"loop", "try", "inflight", "failed", "register"} /\ k < call[t].idx)
              => \/ fallback_order[k] \in TriedNames(t)
                 \/ ~call[t].before[fallback_order[k]].available

\* C3: fallback_order holds the initialised providers by ascending priority,
\* equal priorities in registration order, and generate_content attempts the
\* providers in exactly that order.
C3_DispatchOrder ==
    /\ ExactlyTheRegistered(fallback_order)
    /\ SortedByPriority(fallback_order)
    /\ TiesKeepRegistrationOrder(fallback_order)
    /\ \A t \in Threads : AttemptsFollowOrder(t)

\* all four providers are registered and one call went through all of them
C3_Witness ==
    /\ fallback_order = <<"gemini", "groq", "openai", "huggingface">>
    /\ \E t \in Threads :
          /\ call[t].pc = "done"
          /\ [i \in DOMAIN call[t].tried |-> call[t].tried[i].name] = fallback_order

---------------------------------------------------------------------------
(* C4 *)

---------------------------------------------------------------------------
(* C5 *)

\* C5: an accepted response resets the provider's consecutive_failures to 0
\* whatever it was: the counter is the number of failures recorded since the
\* last success, so failures separated by a success do not add up.
C5_SuccessResets ==
    \A name \in Registered :
        /\ providers[name].consecutive_failures = TrailingFailures(trace[name])
        /\ (trace[name] # <<>> /\ trace[name][Len(trace[name])].accepted)
              => providers[name].consecutive_failures = 0

\* failure, success, failure: two failures in all, the provider is still
\* available with a counter of 1
C5_Witness ==
    \E name \in Registered :
        /\ Len(trace[name]) = 3
        /\ ~trace[name][1].accepted
        /\ trace[name][2].accepted
        /\ ~trace[name][3].accepted
        /\ providers[name].max_errors = 2
        /\ providers[name].available
        /\ providers[name].consecutive_failures = 1

---------------------------------------------------------------------------
(* Calls that all pass the same prompt *)

RepeatedPrompt == "Test"

BeginRepeated(t) == NoCallRunning /\ BeginWith(t, {RepeatedPrompt})

NextRepeated ==
    \/ \E t \in {MainThread} :
          \/ BeginRepeated(t)
          \/ Skip(t)
          \/ Enter(t)
          \/ Invoke(t)
          \/ Respond(t)
          \/ RegisterFailureRead(t)
          \/ RegisterFailureWrite(t)
          \/ Exhausted(t)
          \/ Return(t)
    \/ get_provider_status

SpecRepeated == Init /\ [][NextRepeated]_vars

---------------------------------------------------------------------------
(* C6 *)

\* the names a call invoked, in the order of the invocations
TriedSeq(t) == [i \in DOMAIN call[t].tried |-> call[t].tried[i].name]

\* the call of thread t invoked the provider while its backend was healthy
InvokedHealthy(t, name) ==
    \E i \in DOMAIN call[t].tried :
        call[t].tried[i].name = name /\ call[t].tried[i].healthy

\* B is the first provider of the dispatch order that was available when
\* the call of thread t began, and A, before it in the order, was not
FirstAvailableAfterDisabled(t, A, B) ==
    LET b == PositionIn(fallback_order, B)
    IN  /\ PositionIn(fallback_order, A) < b
        /\ call[t].before[B].available
        /\ \A k \in 1..(b - 1) : ~call[t].before[fallback_order[k]].available

---------------------------------------------------------------------------
(* C7 *)

\* every backend invoked so far was healthy
AllInvocationsHealthy ==
    /\ \A name \in ProviderNames :
          \A i \in DOMAIN trace[name] : trace[name][i].healthy
    /\ \A t \in Threads :
          \A i \in DOMAIN call[t].tried :
              call[t].tried[i].outcome # "pending" => call[t].tried[i].healthy

\* C7: two calls with the same prompt against a registry whose providers are
\* all healthy leave every provider available, with a counter of 0 and
\* outside disabled_providers, as they were before the calls.
C7_HealthyCallsChangeNothing ==
    \A t \in Threads :
        (Returned_(t) /\ calls = 2 /\ AllInvocationsHealthy)
        => \A name \in Registered :
              /\ providers[name].available
              /\ providers[name].consecutive_failures = 0
              /\ name \notin disabled_providers

---------------------------------------------------------------------------
(* C8 *)

\* gemini and groq head the dispatch order, gemini's backend has failed on
\* every invocation, groq's backend has been healthy on every invocation
C8_Scenario ==
    /\ Len(fallback_order) >= 2
    /\ fallback_order[1] = "gemini"
    /\ fallback_order[2] = "groq"
    /\ \A i \in DOMAIN trace["gemini"] : ~trace["gemini"][i].healthy
    /\ \A i \in DOMAIN trace["groq"] : trace["groq"][i].healthy

\* C8: in that scenario calls 1 and 2 try gemini (counter 1, then 2 and
\* disabled) and return groq's result, call 3 does not invoke gemini and
\* returns groq's result, and groq's counter stays 0.
C8_ThreeCalls ==
    \A t \in Threads :
        (Returned_(t) /\ C8_Scenario)
        => /\ calls = 1 => /\ TriedSeq(t) = <<"gemini", "groq">>
                           /\ providers["gemini"].consecutive_failures = 1
                           /\ providers["gemini"].available
           /\ calls = 2 => /\ TriedSeq(t) = <<"gemini", "groq">>
                           /\ providers["gemini"].consecutive_failures = 2
                           /\ ~providers["gemini"].available
                           /\ "gemini" \in disabled_providers
           /\ calls = 3 => TriedSeq(t) = <<"groq">>
           /\ call[t].by = "groq"
           /\ providers["groq"].consecutive_failures = 0

---------------------------------------------------------------------------
(* C10 *)

\* the attempt i of the call is over, its failure registered
Settled(t, i) == i < Len(call[t].tried) \/ call[t].pc \in {"loop", "try", "done"}

\* the provider tried after attempt i is the next one in fallback_order
\* that was available
NextInOrder(t, i) ==
    LET from == PositionIn(fallback_order, call[t].tried[i].name)
        to   == PositionIn(fallback_order, call[t].tried[i + 1].name)
    IN  /\ from < to
        /\ \A k \in (from + 1)..(to - 1) : ~call[t].before[fallback_order[k]].available

\* C10: a provider that returns None, "" or a too short text is handled like
\* one that raised: one failure is recorded for it, the next provider is
\* tried, and when none remains the basic response is returned.
C10_InvalidResultIsFailure ==
    \A t \in Threads :
        \A i \in DOMAIN call[t].tried :
            (Settled(t, i) /\ call[t].tried[i].outcome \in {"invalid", "raised"})
            => LET name == call[t].tried[i].name
               IN  /\ providers[name].consecutive_failures
                         = call[t].before[name].consecutive_failures + 1
                   /\ trace[name] # <<>> /\ ~trace[name][Len(trace[name])].accepted
                   /\ call[t].by # name
                   /\ i < Len(call[t].tried) => NextInOrder(t, i)
                   /\ (call[t].pc = "done" /\ i = Len(call[t].tried))
                         => /\ call[t].by = "basic"
                            /\ call[t].result = Str(_generate_basic_response(call[t].prompt))

\* one provider returned an unusable text, another raised, and the call
\* ended with the basic response
C10_Witness ==
    \E t \in Threads :
        /\ Returned_(t)
        /\ call[t].by = "basic"
        /\ \E i, j \in DOMAIN call[t].tried :
              /\ call[t].tried[i].outcome = "invalid"
              /\ call[t].tried[j].outcome = "raised"
              /\ call[t].tried[i].name \in {"gemini", "openai"}

---------------------------------------------------------------------------
(* C9 *)

\* a step disables the provider: it is the store of _register_failure that
\* takes the counter to max_errors
DisabledByThreshold(name) ==
    \E t \in Threads :
        /\ call[t].pc = "register"
        /\ call[t].cur = name
        /\ call'[t].pc = "loop"
        /\ providers'[name].consecutive_failures = providers[name].consecutive_failures + 1
        /\ providers'[name].consecutive_failures >= providers[name].max_errors

---------------------------------------------------------------------------
(* C11 *)

\* the attempt of thread t that has just ended did not raise
LastAttemptReturned(t) ==
    /\ call[t].tried # <<>>
    /\ call[t].tried[Len(call[t].tried)].outcome # "raised"

\* length of a provider's text once the surrounding whitespace is removed
TrimmedLength(v) == Len(strip(v.text))

\* C11: a provider's text is accepted if and only if it is not None and its
\* length after strip() is strictly greater than 10: a text that was rejected
\* without an exception is None or has at most 10 characters left, and a text
\* that was returned has at least 11.
C11_AcceptedIffLongerThanTen ==
    \A t \in Threads :
        /\ (call[t].pc = "failed" /\ LastAttemptReturned(t))
              => (call[t].received.none \/ TrimmedLength(call[t].received) <= 10)
        /\ (call[t].pc = "done" /\ call[t].by \in ProviderNames)
              => /\ ~call[t].received.none
                 /\ TrimmedLength(call[t].received) >= 11
                 /\ call[t].result = Str(strip(call[t].received.text))

\* a text of 12 characters, 10 of them besides the padding, was rejected
C11_Witness ==
    \E t \in Threads :
        /\ call[t].pc = "failed"
        /\ LastAttemptReturned(t)
        /\ ~call[t].received.none
        /\ Len(call[t].received.text) > 10
        /\ TrimmedLength(call[t].received) = 10

---------------------------------------------------------------------------
(* C12 *)

\* the call of thread t invoked the provider and the attempt failed
FailedInCall(t, name) ==
    \E i \in DOMAIN call[t].tried :
        /\ call[t].tried[i].name = name
        /\ call[t].tried[i].outcome \in {"raised", "invalid"}

\* the call of thread t passed the provider over: it was unavailable when the
\* call began, and the call never invoked it
SkippedInCall(t, name) ==
    /\ name \notin TriedNames(t)
    /\ ~call[t].before[name].available

\* C12: generate_content returns the basic response only when every provider
\* of fallback_order was skipped as unavailable or failed during the call;
\* when a provider gives an acceptable text, the value returned is the
\* stripped text of the first such provider in dispatch order: every provider
\* before it failed in this call or was skipped.
C12_BasicOnlyWhenAllFailed ==
    \A t \in Threads :
        Returned_(t) =>
            /\ call[t].by \in ProviderNames \cup {"basic"}
            /\ call[t].by = "basic" =>
                  \A k \in DOMAIN fallback_order :
                      FailedInCall(t, fallback_order[k]) \/ SkippedInCall(t, fallback_order[k])
            /\ call[t].by \in ProviderNames =>
                  LET n == Len(call[t].tried)
                  IN  /\ n >= 1
                      /\ call[t].tried[n].name = call[t].by
                      /\ call[t].tried[n].outcome = "text"
                      /\ call[t].result = Str(strip(call[t].received.text))
                      /\ \A k \in DOMAIN fallback_order :
                            k < PositionIn(fallback_order, call[t].by)
                                => \/ FailedInCall(t, fallback_order[k])
                                   \/ SkippedInCall(t, fallback_order[k])

\* the basic response came back from a call that skipped one provider and
\* saw another one fail
C12_Witness ==
    \E t \in Threads :
        /\ Returned_(t)
        /\ call[t].by = "basic"
        /\ \E k \in DOMAIN fallback_order : SkippedInCall(t, fallback_order[k])
        /\ \E k \in DOMAIN fallback_order : FailedInCall(t, fallback_order[k])

---------------------------------------------------------------------------
(* C13: threads of the request server and of the agents' thread pool call
   generate_content on the one ai_manager at the same time *)

\* set-ups of the concurrent runs: Gemini and Groq keys set or not, the
\* OpenAI library missing, no HuggingFace key
ConcurrentSetups ==
    {o \in [ProviderNames -> {"ok", "failed", "absent"}] :
        /\ o["gemini"] \in SetupOutcomes("gemini")
        /\ o["groq"] \in SetupOutcomes("groq")
        /\ o["openai"] = "failed"
        /\ o["huggingface"] = "absent"}

InitConcurrent ==
    \E o \in ConcurrentSetups :
        /\ providers = InitialProviders(o)
        /\ fallback_order = InitialFallbackOrder(o)
        /\ disabled_providers = {}
        /\ call = [t \in Threads |-> IdleCall]
        /\ calls = 0
        /\ status = NoStatus
        /\ trace = [name \in ProviderNames |-> <<>>]
        /\ ProgressInit
        /\ ServiceInit

\* a thread enters generate_content whatever the other threads are doing
BeginConcurrent(t) == BeginWith(t, {RepeatedPrompt})

NextConcurrent ==
    \E t \in Threads :
        \/ BeginConcurrent(t)
        \/ Skip(t)
        \/ Enter(t)
        \/ Invoke(t)
        \/ Respond(t)
        \/ RegisterFailureRead(t)
        \/ RegisterFailureWrite(t)
        \/ Exhausted(t)
        \/ Return(t)

SpecConcurrent == InitConcurrent /\ [][NextConcurrent]_vars

\* the provider has had no success so far
NeverSucceeded(name) == \A i \in DOMAIN trace[name] : ~trace[name][i].accepted

\* C13: the read-modify-write of a provider's failure counter is atomic when
\* threads run generate_content concurrently: k failures of a provider with
\* no success in between leave consecutive_failures at exactly k, and the
\* provider is unavailable once max_errors failures have been registered.
C13_NoLostUpdate ==
    \A name \in Registered :
        NeverSucceeded(name) =>
            /\ providers[name].consecutive_failures = Len(trace[name])
            /\ Len(trace[name]) >= providers[name].max_errors => ~providers[name].available

---------------------------------------------------------------------------
(* C14 *)

\* the attempts of the call of thread t that are under way
InFlight(t) == {i \in DOMAIN call[t].tried : call[t].tried[i].outcome = "pending"}

\* C14: within one generate_content call at most one provider is in flight
\* at any time: a provider is invoked only after every earlier attempt of the
\* call has ended in a failure, each provider is invoked at most once per
\* call, and no provider is invoked after one has been accepted.
C14_OneInFlight ==
    \A t \in Threads :
        LET tried == call[t].tried
            n == Len(tried)
        IN  /\ Cardinality(InFlight(t)) <= 1
            /\ InFlight(t) # {} <=> call[t].pc = "inflight"
            /\ \A i \in DOMAIN tried : i < n => tried[i].outcome \in {"raised", "invalid"}
            /\ \A i, j \in DOMAIN tried : tried[i].name = tried[j].name => i = j
            /\ call[t].pc \in {"try", "inflight"} => call[t].by = ""
            /\ call[t].by \in ProviderNames
                  => /\ call[t].pc = "done"
                     /\ tried[n].name = call[t].by
                     /\ tried[n].outcome = "text"

\* the third provider of the call is in flight, after two attempts that failed
C14_Witness ==
    \E t \in Threads :
        /\ call[t].pc = "inflight"
        /\ Len(call[t].tried) = 3
        /\ InFlight(t) = {3}

---------------------------------------------------------------------------
(* C15 *)

\* the step belongs to the handling of a failure of provider P by thread t:
\* the except clause of the loop body and _register_failure
FailureStep(t, P) ==
    /\ call[t].cur = P
    /\ \/ call[t].pc = "inflight" /\ call'[t].pc = "failed"
       \/ call[t].pc = "failed" /\ call'[t].pc = "register"
       \/ call[t].pc = "register" /\ call'[t].pc = "loop"

\* C15: a failure of provider P during a dispatch changes only P's own
\* record: the entry of every other provider and its membership of
\* disabled_providers are the same after the failure as before it.
C15_FailureTouchesOnlyItsProvider ==
    [][ \A t \in Threads : \A P \in ProviderNames :
            FailureStep(t, P) =>
                \A other \in ProviderNames \ {P} :
                    /\ providers'[other] = providers[other]
                    /\ (other \in disabled_providers') = (other \in disabled_providers)
      ]_vars

\* the failure of P in this call disabled P, while Q, not yet invoked, has
\* kept the one failure and the availability it had when the call began
C15_Witness ==
    \E t \in Threads : \E P, Q \in ProviderNames :
        /\ P # Q
        /\ call[t].pc = "loop"
        /\ FailedInCall(t, P)
        /\ call[t].before[P].available
        /\ P \in disabled_providers
        /\ Q \notin TriedNames(t)
        /\ providers[Q].available
        /\ Q \notin disabled_providers
        /\ providers[Q].consecutive_failures = 1
        /\ call[t].before[Q].consecutive_failures = 1

---------------------------------------------------------------------------
(* C16: two callers whose calls do not overlap; each keeps the value it got
   while the other one calls, as the agents' results are kept side by side *)

SecondCaller == 2

Callers == {MainThread, SecondCaller}

\* no other caller is inside generate_content
BeginSuccessive(t) ==
    /\ \A u \in Threads : call[u].pc \in {"idle", "done"}
    /\ BeginWith(t, Prompts)

NextSuccessive ==
    \E t \in Callers :
        \/ BeginSuccessive(t)
        \/ Skip(t)
        \/ Enter(t)
        \/ Invoke(t)
        \/ Respond(t)
        \/ RegisterFailureRead(t)
        \/ RegisterFailureWrite(t)
        \/ Exhausted(t)
        \/ Return(t)

SpecSuccessive == InitConcurrent /\ [][NextSuccessive]_vars

\* thread t holds a basic response
HoldsBasic(t) == Returned_(t) /\ call[t].by = "basic"

---------------------------------------------------------------------------
(* C17 *)

\* no provider was initialised
EmptyRegistry == Registered = {} /\ fallback_order = <<>>

\* the value handed to the caller carries a flag  degraded  that is set
MarkedDegraded(v) == "degraded" \in DOMAIN v /\ v.degraded

\* C17: with an empty registry generate_content invokes no provider, changes
\* no counter, and returns the non-empty placeholder of the basic responder
\* marked as degraded, so that the caller can tell it from a provider's text
\* by that flag.
C17_EmptyRegistryDegraded ==
    \A t \in Threads :
        (Returned_(t) /\ EmptyRegistry) =>
            /\ call[t].tried = <<>>
            /\ Snapshot(providers) = call[t].before
            /\ call[t].result = Str(_generate_basic_response(call[t].prompt))
            /\ Len(call[t].result.text) >= 1
            /\ MarkedDegraded(call[t].result)

---------------------------------------------------------------------------
(* routes/progress.py: the requests *)

\* the ai_manager of a process in which no provider is configured
InitProgress ==
    /\ providers = [name \in ProviderNames |-> AbsentEntry]
    /\ fallback_order = <<>>
    /\ disabled_providers = {}
    /\ call = [t \in Threads |-> IdleCall]
    /\ calls = 0
    /\ status = NoStatus
    /\ trace = [name \in ProviderNames |-> <<>>]
    /\ ProgressInit
    /\ ServiceInit

\* a request comes in and a thread starts to serve it
Receive(t, op, first) ==
    /\ req[t].pc = "idle"
    /\ requests < MaxRequests
    /\ requests' = requests + 1
    /\ \E s \in SessionIds, step \in Steps, force \in BOOLEAN :
          req' = [req EXCEPT ![t] = [IdleRequest EXCEPT
                     !.op = op, !.pc = first, !.session_id = s,
                     !.step = IF op = "update_progress_endpoint" THEN step ELSE 0,
                     !.force = IF op = "cleanup_sessions" THEN force ELSE FALSE]]
    /\ UNCHANGED <<progress_sessions, progress_queues, progress_lock, tracker_objects>>
    /\ UNCHANGED <<manager_vars, service_vars>>

\* the  with progress_lock:  statements, and the statement each one guards
LockPoints ==
    [start_lock   |-> "start_remove",
     init_lock    |-> "init_register",
     update_lock  |-> "update_body",
     status_lock  |-> "status_body",
     get_lock     |-> "get_body",
     complete_lock |-> "complete_body",
     cleanup_lock |-> "cleanup_body"]

\* the thread stands at a  with progress_lock:
WaitsForLock(t) == req[t].pc \in DOMAIN LockPoints

\* threading.Lock.acquire: granted only while nobody holds the lock, the
\* thread that asks included
Acquire(t) ==
    /\ WaitsForLock(t)
    /\ progress_lock = Free
    /\ progress_lock' = t
    /\ req' = [req EXCEPT ![t].pc = LockPoints[req[t].pc]]
    /\ UNCHANGED <<progress_sessions, progress_queues, tracker_objects, requests>>
    /\ UNCHANGED <<manager_vars, service_vars>>

\* POST /start_tracking
start_tracking(t) == Receive(t, "start_tracking", "start_lock")

\* start_tracking, the block under the lock: the tracker registered under the
\* id is deactivated and both keys are deleted
StartRemove(t) ==
    /\ req[t].pc = "start_remove"
    /\ LET s == req[t].session_id
           old_tracker == progress_sessions[s]
       IN  /\ tracker_objects' =
                 IF old_tracker # NoTracker
                 THEN [tracker_objects EXCEPT ![old_tracker].is_active = FALSE]
                 ELSE tracker_objects
           /\ progress_sessions' = [progress_sessions EXCEPT ![s] = NoTracker]
           /\ progress_queues' = [progress_queues EXCEPT ![s] = NoQueue]
    /\ progress_lock' = Free
    /\ req' = [req EXCEPT ![t].pc = "new"]
    /\ UNCHANGED requests
    /\ UNCHANGED <<manager_vars, service_vars>>

\* ProgressTracker.__init__ up to the lock: a new object with its fields
New(t) ==
    /\ req[t].pc = "new"
    /\ tracker_objects' = Append(tracker_objects,
                                 [session_id |-> req[t].session_id, current_step |-> 0,
                                  is_active |-> TRUE, is_complete |-> FALSE,
                                  registered |-> FALSE])
    /\ req' = [req EXCEPT ![t].pc = "init_lock", ![t].tracker = Len(tracker_objects) + 1]
    /\ UNCHANGED <<progress_sessions, progress_queues, progress_lock, requests>>
    /\ UNCHANGED <<manager_vars, service_vars>>

\* where the caller of ProgressTracker(session_id) goes on
AfterInit(op) ==
    IF op = "start_tracking" THEN "update_lock" ELSE "get_return"

\* ProgressTracker.__init__, the block under the lock
Register(t) ==
    /\ req[t].pc = "init_register"
    /\ LET s == req[t].session_id
       IN  /\ progress_sessions' = [progress_sessions EXCEPT ![s] = req[t].tracker]
           /\ progress_queues' = [progress_queues EXCEPT ![s] = EmptyQueue]
    /\ tracker_objects' = [tracker_objects EXCEPT ![req[t].tracker].registered = TRUE]
    /\ progress_lock' = Free
    /\ req' = [req EXCEPT ![t].pc = AfterInit(req[t].op)]
    /\ UNCHANGED requests
    /\ UNCHANGED <<manager_vars, service_vars>>

\* max(0, min(step, self.total_steps))
Clamp(step) ==
    LET m == IF step < total_steps THEN step ELSE total_steps
    IN  IF m > 0 THEN m ELSE 0

\* queue.qsize() > 100
QueueLimit == 100

\* datetime.now() as update_progress reads it under the lock: later for each
\* later update of the session
Now(queue) == queue.puts + 1

\* the queue after update_progress has put progress_data into it
Put(queue, progress_data) ==
    [queue EXCEPT !.items = Append(IF Len(queue.items) > QueueLimit THEN <<>> ELSE queue.items,
                                   progress_data),
                  !.puts = @ + 1]

\* where the caller of update_progress goes on
AfterUpdate(op) ==
    CASE op = "start_tracking" -> "status_lock"
      [] op = "complete_analysis" -> "complete_rest"
      [] OTHER -> "done"

\* ProgressTracker.update_progress, the block under the lock
UpdateBody(t) ==
    /\ req[t].pc = "update_body"
    /\ LET self == req[t].tracker
           s == tracker_objects[self].session_id
           current_step == Clamp(req[t].step)
       IN  IF ~tracker_objects[self].is_active
           THEN /\ req' = [req EXCEPT ![t].pc = AfterUpdate(req[t].op), ![t].result = "None"]
                /\ UNCHANGED <<tracker_objects, progress_queues>>
           ELSE /\ tracker_objects' = [tracker_objects EXCEPT ![self].current_step = current_step]
                /\ progress_queues' =
                      IF progress_queues[s].present
                      THEN [progress_queues EXCEPT ![s] =
                               Put(@, [tracker |-> self, current_step |-> current_step,
                                       timestamp |-> Now(@)])]
                      ELSE progress_queues
                /\ req' = [req EXCEPT ![t].pc = AfterUpdate(req[t].op), ![t].result = "progress_data"]
    /\ progress_lock' = Free
    /\ UNCHANGED <<progress_sessions, requests>>
    /\ UNCHANGED <<manager_vars, service_vars>>

\* ProgressTracker.get_current_status, the block under the lock
StatusBody(t) ==
    /\ req[t].pc = "status_body"
    /\ progress_lock' = Free
    /\ req' = [req EXCEPT ![t].pc = "done", ![t].result = "status"]
    /\ UNCHANGED <<progress_sessions, progress_queues, tracker_objects, requests>>
    /\ UNCHANGED <<manager_vars, service_vars>>

\* get_progress_tracker(session_id), called by analyze_ultra_enhanced
get_progress_tracker(t) == Receive(t, "get_progress_tracker", "get_lock")

\* get_progress_tracker, the block under the lock: the registered tracker is
\* returned, or ProgressTracker(session_id) is called with the lock held
GetBody(t) ==
    /\ req[t].pc = "get_body"
    /\ IF progress_sessions[req[t].session_id] = NoTracker
       THEN /\ req' = [req EXCEPT ![t].pc = "new"]
            /\ UNCHANGED progress_lock
       ELSE /\ req' = [req EXCEPT ![t].pc = "done",
                                  ![t].tracker = progress_sessions[req[t].session_id],
                                  ![t].result = "tracker"]
            /\ progress_lock' = Free
    /\ UNCHANGED <<progress_sessions, progress_queues, tracker_objects, requests>>
    /\ UNCHANGED <<manager_vars, service_vars>>

\* the test  session_id not in progress_sessions  of a route, made without
\* the lock: 404, or the tracker is taken and the route goes on at  next
Lookup(t, pc, next) ==
    /\ req[t].pc = pc
    /\ IF progress_sessions[req[t].session_id] = NoTracker
       THEN req' = [req EXCEPT ![t].pc = "done", ![t].result = "404"]
       ELSE req' = [req EXCEPT ![t].pc = next,
                               ![t].tracker = progress_sessions[req[t].session_id]]
    /\ UNCHANGED <<progress_sessions, progress_queues, progress_lock, tracker_objects, requests>>
    /\ UNCHANGED <<manager_vars, service_vars>>

\* POST /complete
complete_analysis(t) == Receive(t, "complete_analysis", "complete_lookup")

CompleteLookup(t) == Lookup(t, "complete_lookup", "complete_lock")

\* ProgressTracker.complete, the block under the lock up to the call of
\* self.update_progress
CompleteBody(t) ==
    /\ req[t].pc = "complete_body"
    /\ tracker_objects' = [tracker_objects EXCEPT ![req[t].tracker].is_complete = TRUE,
                                                  ![req[t].tracker].current_step = total_steps]
    /\ req' = [req EXCEPT ![t].pc = "update_lock", ![t].step = total_steps]
    /\ UNCHANGED <<progress_sessions, progress_queues, progress_lock, requests>>
    /\ UNCHANGED <<manager_vars, service_vars>>

\* POST /update
update_progress_endpoint(t) == Receive(t, "update_progress_endpoint", "update_lookup")

UpdateLookup(t) == Lookup(t, "update_lookup", "update_lock")

\* GET /<session_id>
get_progress_main(t) == Receive(t, "get_progress_main", "status_lookup")

StatusLookup(t) == Lookup(t, "status_lookup", "status_lock")

\* POST /cleanup
cleanup_sessions(t) == Receive(t, "cleanup_sessions", "cleanup_lock")

\* the registered trackers that are not active
Inactive ==
    {s \in SessionIds : progress_sessions[s] # NoTracker
                        /\ ~tracker_objects[progress_sessions[s]].is_active}

\* cleanup_sessions, the block under the lock: the sessions that are forced,
\* too old or inactive are deleted from both dicts
CleanupBody(t) ==
    /\ req[t].pc = "cleanup_body"
    /\ \E sessions_to_remove \in SUBSET {s \in SessionIds : progress_sessions[s] # NoTracker} :
          /\ Inactive \subseteq sessions_to_remove
          /\ req[t].force => sessions_to_remove = {s \in SessionIds : progress_sessions[s] # NoTracker}
          /\ progress_sessions' = [s \in SessionIds |->
                                      IF s \in sessions_to_remove THEN NoTracker ELSE progress_sessions[s]]
          /\ progress_queues' = [s \in SessionIds |->
                                    IF s \in sessions_to_remove THEN NoQueue ELSE progress_queues[s]]
    /\ progress_lock' = Free
    /\ req' = [req EXCEPT ![t].pc = "done", ![t].result = "cleaned"]
    /\ UNCHANGED <<tracker_objects, requests>>
    /\ UNCHANGED <<manager_vars, service_vars>>

\* the response is sent and the thread is free again
Reply(t) ==
    /\ req[t].pc = "done"
    /\ req' = [req EXCEPT ![t] = IdleRequest]
    /\ UNCHANGED <<progress_sessions, progress_queues, progress_lock, tracker_objects, requests>>
    /\ UNCHANGED <<manager_vars, service_vars>>

NextProgress ==
    \E t \in Threads :
        \/ start_tracking(t)
        \/ get_progress_tracker(t)
        \/ complete_analysis(t)
        \/ update_progress_endpoint(t)
        \/ get_progress_main(t)
        \/ cleanup_sessions(t)
        \/ Acquire(t)
        \/ StartRemove(t)
        \/ New(t)
        \/ Register(t)
        \/ UpdateBody(t)
        \/ StatusBody(t)
        \/ GetBody(t)
        \/ CompleteLookup(t)
        \/ CompleteBody(t)
        \/ UpdateLookup(t)
        \/ StatusLookup(t)
        \/ CleanupBody(t)
        \/ Reply(t)

SpecProgress == InitProgress /\ [][NextProgress]_vars

---------------------------------------------------------------------------
(* C18 *)

\* the thread asks for progress_lock while it holds it: threading.Lock is not
\* reentrant, so the thread waits for itself and the lock is never released
WaitsForItself(t) == WaitsForLock(t) /\ progress_lock = t

\* C18: ProgressTracker.complete() always terminates: called on a registered
\* tracker it returns and releases progress_lock, so that later operations
\* that need the lock can proceed; the thread running complete() is never
\* left waiting for a lock that will not be released.
C18_CompleteTerminates ==
    \A t \in Threads :
        req[t].op = "complete_analysis" => ~WaitsForItself(t)

---------------------------------------------------------------------------
(* C19 *)

\* C19: get_progress_tracker(session_id) returns a tracker for every
\* session_id, the registered one or a newly created and registered one, and
\* progress_lock is free afterwards: no thread asks for progress_lock while
\* it already holds it.
C19_GetTrackerReturns ==
    \A t \in Threads :
        req[t].op = "get_progress_tracker" =>
            /\ ~WaitsForItself(t)
            /\ req[t].pc = "done" =>
                  /\ req[t].tracker # NoTracker
                  /\ tracker_objects[req[t].tracker].registered
                  /\ progress_lock # t

---------------------------------------------------------------------------
(* C20 *)

\* the keys of the two dicts
SessionKeys == {s \in SessionIds : progress_sessions[s] # NoTracker}
QueueKeys == {s \in SessionIds : progress_queues[s].present}

\* start_tracking has returned success to the thread
StartReturned(t) == req[t].op = "start_tracking" /\ req[t].pc = "done"

\* the trackers that were registered under the id and are not the one
\* registered now
Replaced(s) ==
    {k \in DOMAIN tracker_objects :
        /\ tracker_objects[k].session_id = s
        /\ tracker_objects[k].registered
        /\ k # progress_sessions[s]}

\* the tracker registered under the id is a fresh active one at step 0
FreshTracker(s) ==
    /\ progress_sessions[s] # NoTracker
    /\ tracker_objects[progress_sessions[s]].is_active
    /\ ~tracker_objects[progress_sessions[s]].is_complete
    /\ tracker_objects[progress_sessions[s]].current_step = 0

\* the clients send nothing but POST /start_tracking
NextStartTracking ==
    \E t \in Threads :
        \/ start_tracking(t)
        \/ Acquire(t)
        \/ StartRemove(t)
        \/ New(t)
        \/ Register(t)
        \/ UpdateBody(t)
        \/ StatusBody(t)
        \/ Reply(t)

SpecStartTracking == InitProgress /\ [][NextStartTracking]_vars

\* C20: when start_tracking(session_id) returns successfully,
\* progress_sessions[session_id] is a fresh active tracker at step 0, any
\* tracker previously registered under that id has is_active = false, and
\* progress_sessions and progress_queues have the same key set.
C20_StartTrackingFresh ==
    [][ \A t \in Threads :
            (~StartReturned(t) /\ StartReturned(t)') =>
                /\ FreshTracker(req[t].session_id)'
                /\ \A k \in Replaced(req[t].session_id)' : ~tracker_objects'[k].is_active
                /\ SessionKeys' = QueueKeys'
      ]_vars

\* progress_sessions and progress_queues have the same key set whenever no
\* thread is inside a block under the lock
KeySetsAgree == progress_lock = Free => SessionKeys = QueueKeys

---------------------------------------------------------------------------
(* C21 *)

\* the trackers whose update_progress produced the entries now in the queue
\* of the session
Producers(s) ==
    IF progress_queues[s].present
    THEN {progress_queues[s].items[i].tracker : i \in 1..Len(progress_queues[s].items)}
    ELSE {}

\* C21: under concurrent start_tracking requests for the same session_id,
\* every update found in progress_queues[session_id] was produced by the
\* tracker currently registered in progress_sessions[session_id]; a tracker
\* that has been replaced never enqueues into the queue of its replacement.
C21_QueueHoldsOwnUpdates ==
    \A s \in SessionIds : Producers(s) \subseteq {progress_sessions[s]}

---------------------------------------------------------------------------
(* routes/progress.py: polling *)

\* max_updates = 50 with one update too many
max_updates_More == 50 + 1

\* max_updates = 50, the limit of updates per poll
max_updates == 50

\* the thread that serves the polls of the client, one poll after the other
Poller == MainThread

\* the thread that runs the analysis of the session and reports its steps,
\* one after the other
Worker == 2

\* how many updates wait in the queue of the session when the polls begin:
\* around the limit of one poll and around the limit of the queue
PendingSizes ==
    {1, max_updates - 1, max_updates, max_updates + 1, QueueLimit, QueueLimit + 1}

\* the queue after start_tracking (its update of step 0) and  n - 1  updates
\* of step 5, none of them polled
Pending(n) ==
    [present |-> TRUE,
     items |-> [i \in 1..n |-> [tracker |-> 1, current_step |-> IF i = 1 THEN 0 ELSE 5,
                                timestamp |-> i]],
     puts |-> n,
     taken |-> <<>>]

\* session "s1" is being tracked and its updates have not been polled yet
InitPolling ==
    /\ providers = [name \in ProviderNames |-> AbsentEntry]
    /\ fallback_order = <<>>
    /\ disabled_providers = {}
    /\ call = [t \in Threads |-> IdleCall]
    /\ calls = 0
    /\ status = NoStatus
    /\ trace = [name \in ProviderNames |-> <<>>]
    /\ \E n \in PendingSizes :
          /\ progress_sessions = [s \in SessionIds |-> IF s = "s1" THEN 1 ELSE NoTracker]
          /\ progress_queues = [s \in SessionIds |-> IF s = "s1" THEN Pending(n) ELSE NoQueue]
          /\ tracker_objects = <<[session_id |-> "s1", current_step |-> IF n = 1 THEN 0 ELSE 5,
                                  is_active |-> TRUE, is_complete |-> FALSE,
                                  registered |-> TRUE]>>
    /\ progress_lock = Free
    /\ req = [t \in Threads |-> IdleRequest]
    /\ requests = 0
    /\ ServiceInit

\* GET /poll/<session_id>
poll_updates(t) == t = Poller /\ Receive(t, "poll_updates", "poll_lookup")

\* poll_updates, the test  session_id not in progress_queues : 404, or the
\* queue of the session is taken
PollLookup(t) ==
    /\ req[t].pc = "poll_lookup"
    /\ IF ~progress_queues[req[t].session_id].present
       THEN req' = [req EXCEPT ![t].pc = "done", ![t].result = "404"]
       ELSE req' = [req EXCEPT ![t].pc = "poll_loop"]
    /\ UNCHANGED <<progress_sessions, progress_queues, progress_lock, tracker_objects, requests>>
    /\ UNCHANGED <<manager_vars, service_vars>>

\* poll_updates, one turn of the loop: the oldest update is taken out of the
\* queue, or the loop ends and the updates collected are returned
PollGet(t) ==
    /\ req[t].pc = "poll_loop"
    /\ LET s == req[t].session_id
           queue == progress_queues[s]
       IN  IF Len(queue.items) > 0 /\ Len(req[t].updates) < max_updates
           THEN /\ progress_queues' =
                      [progress_queues EXCEPT ![s].items = Tail(queue.items),
                                              ![s].taken = Append(queue.taken,
                                                                  Head(queue.items).timestamp)]
                /\ req' = [req EXCEPT ![t].updates = Append(@, Head(queue.items))]
           ELSE /\ req' = [req EXCEPT ![t].pc = "done", ![t].result = "updates"]
                /\ UNCHANGED progress_queues
    /\ UNCHANGED <<progress_sessions, progress_lock, tracker_objects, requests>>
    /\ UNCHANGED <<manager_vars, service_vars>>

\* a step of the analysis is reported
ReportStep(t) == t = Worker /\ update_progress_endpoint(t)

NextPolling ==
    \E t \in Threads :
        \/ poll_updates(t)
        \/ PollLookup(t)
        \/ PollGet(t)
        \/ ReportStep(t)
        \/ UpdateLookup(t)
        \/ Acquire(t)
        \/ UpdateBody(t)
        \/ Reply(t)

SpecPolling == InitPolling /\ [][NextPolling]_vars

---------------------------------------------------------------------------
(* C22 *)

\* the time stamps of a sequence of updates
Stamps(updates) == [i \in 1..Len(updates) |-> updates[i].timestamp]

\* the sequence of time stamps goes from older to newer and has no stamp twice
Ascending(stamps) ==
    \A i \in 1..(Len(stamps) - 1) : stamps[i] < stamps[i + 1]

\* the elements of a sequence
Range(seq) == {seq[i] : i \in 1..Len(seq)}

\* the updates waiting in the queue of the session
Waiting(s) == Range(Stamps(progress_queues[s].items))

\* the thread is inside update_progress of a tracker of the session
Updating(t, s) ==
    /\ req[t].pc = "update_body"
    /\ tracker_objects[req[t].tracker].session_id = s

\* C22: poll_updates(session_id) returns the pending updates of the session
\* in the order update_progress produced them, at most 50 per poll, and no
\* update is delivered by two polls; an update that was not returned stays
\* queued for the next poll, unless the queue exceeded 100 entries, in which
\* case update_progress discards all pending entries before adding the new
\* one.
C22_PollDeliversOnceInOrder ==
    [][\A s \in SessionIds :
          LET waiting == Waiting(s)
              left == Waiting(s)'
              taken == Range(progress_queues[s].taken)
              delivered == Range(progress_queues'[s].taken)
              overflow == Len(progress_queues[s].items) > 100
          IN  /\ \A t \in Threads :
                    (req'[t].op = "poll_updates" /\ req'[t].session_id = s) =>
                        /\ Len(req'[t].updates) <= 50
                        /\ Ascending(Stamps(req'[t].updates))
                        /\ Range(Stamps(req'[t].updates)) \subseteq delivered
              /\ Ascending(progress_queues'[s].taken)
              /\ delivered \ taken \subseteq waiting
              /\ left \cap delivered = {}
              /\ \/ waiting \subseteq left \cup delivered
                 \/ /\ overflow
                    /\ \E t \in Threads : Updating(t, s)
                    /\ left = {progress_queues'[s].puts}
              /\ (overflow /\ progress_queues'[s].puts # progress_queues[s].puts)
                    => left = {progress_queues'[s].puts}
    ]_vars

\* a second poll has returned its 50 updates and left the others in the queue
C22_Witness ==
    /\ req[Poller].op = "poll_updates"
    /\ req[Poller].pc = "done"
    /\ Len(req[Poller].updates) = 50
    /\ Len(progress_queues["s1"].taken) > 50
    /\ Len(progress_queues["s1"].items) > 0

---------------------------------------------------------------------------
(* C23 *)

\* the model answered with status 200 and a non-empty generated text
ModelSucceeded(o) == o.kind = "200" /\ o.text # ""

\* what one pass over the models did, started at index  start  with the
\* answers  outs : the models are requested cyclically from  start , none
\* twice, each but the last one failed, the pass ends at the first model that
\* succeeds or after the last model, and the index is left at the last model
\* requested
OnePass(start, outs, r) ==
    /\ Len(r.posted) >= 1
    /\ Len(r.posted) <= Len(HfModels)
    /\ \A k \in 1..Len(r.posted) : r.posted[k] = (start + k - 1) % Len(HfModels)
    /\ \A j, k \in 1..Len(r.posted) : j # k => r.posted[j] # r.posted[k]
    /\ \A k \in 1..(Len(r.posted) - 1) : ~ModelSucceeded(outs[r.posted[k]])
    /\ ModelSucceeded(outs[r.posted[Len(r.posted)]]) \/ Len(r.posted) = Len(HfModels)
    /\ r.index = r.posted[Len(r.posted)]
    /\ IF ModelSucceeded(outs[r.index])
       THEN r.text = Str(outs[r.index].text)
       ELSE r.text = None

\* the huggingface attempt of thread t ends in this step
HfAttemptEnds(t) ==
    /\ call[t].pc = "inflight"
    /\ call[t].cur = "huggingface"
    /\ call'[t].pc # "inflight"

\* C23: in one dispatch the HuggingFace provider tries its models cyclically
\* starting at current_model_index, each model at most once, stops at the
\* first model that returns status 200 with non-empty generated text and
\* leaves current_model_index at the last model tried; if no model succeeds
\* the whole attempt counts as exactly one failure of the huggingface
\* provider: the counter is not touched while the models are tried and goes
\* up by one when the failure is registered.
C23_HuggingFaceRotation ==
    [][\A t \in Threads :
          LET start == providers["huggingface"].current_model_index
              \* the answers of the models that lead to what the step left
              answers == {outs \in EnvChoices("huggingface") :
                            LET r == HfRotate(0, start, outs)
                            IN  /\ call'[t].received = r.text
                                /\ providers'["huggingface"].current_model_index = r.index}
          IN  /\ HfAttemptEnds(t) =>
                    /\ answers # {}
                    /\ \A outs \in answers :
                          /\ OnePass(start, outs, HfRotate(0, start, outs))
                          /\ (\A m \in HfIndexes : ~ModelSucceeded(outs[m])) =>
                                /\ call'[t].pc = "failed"
                                /\ Len(HfRotate(0, start, outs).posted) = Len(HfModels)
                    /\ call'[t].received = None => call'[t].pc = "failed"
                    /\ call'[t].pc = "failed" =>
                          providers'["huggingface"].consecutive_failures =
                              providers["huggingface"].consecutive_failures
              /\ (FailureStep(t, "huggingface") /\ call[t].pc = "register") =>
                    /\ providers'["huggingface"].consecutive_failures =
                          providers["huggingface"].consecutive_failures + 1
                    /\ Cardinality({i \in DOMAIN call[t].tried :
                                       call[t].tried[i].name = "huggingface"}) = 1
    ]_vars

\* a dispatch that began at the second model went round to the first one,
\* found no model that answers, and was counted as one failure
C23_Witness ==
    \E t \in Threads :
        /\ call[t].pc = "loop"
        /\ FailedInCall(t, "huggingface")
        /\ call[t].before["huggingface"].available
        /\ providers["huggingface"].current_model_index = 0
        /\ providers["huggingface"].consecutive_failures =
              call[t].before["huggingface"].consecutive_failures + 1
        /\ providers["huggingface"].consecutive_failures >= 2
        /\ providers["huggingface"].error =
              "Todos os modelos HuggingFace falharam após tentativas."

---------------------------------------------------------------------------
(* C24 *)

\* C24: in every reachable state, the interleavings of concurrent
\* generate_content calls included, each provider of fallback_order is
\* unavailable if and only if its consecutive_failures has reached
\* max_errors, and it is in disabled_providers if and only if its available
\* flag is false: a success that completes after another caller disabled the
\* provider does not leave it disabled with a counter of 0.
C24_DisabledIffThreshold ==
    \A i \in DOMAIN fallback_order :
        LET name == fallback_order[i]
        IN  /\ ~providers[name].available <=>
                  providers[name].consecutive_failures >= providers[name].max_errors
            /\ name \in disabled_providers <=> ~providers[name].available

---------------------------------------------------------------------------
(* services/super_orchestrator.py and services/health_checker.py *)

\* the thread that runs the synchronized analyses, one after the other
Analyst == MainThread

\* execute_synchronized_analysis up to the first save: the state of the
\* session is created under sync_lock
execute_synchronized_analysis(t) ==
    /\ analysis[t].pc = "idle"
    /\ call[t].pc = "idle"
    /\ analyses < MaxAnalyses
    /\ analyses' = analyses + 1
    /\ \E s \in SessionIds :
          /\ analysis' = [analysis EXCEPT ![t] = [IdleAnalysis EXCEPT !.pc = "check",
                                                                      !.session_id = s]]
          /\ execution_state' = [execution_state EXCEPT ![s] = "running"]
    /\ UNCHANGED <<manager_vars, progress_vars>>

\* _check_all_services_status -> check_all_services -> _check_ai_providers:
\* the loop over the four names is about to begin
CheckBegin(t) ==
    /\ analysis[t].pc = "check"
    /\ analysis' = [analysis EXCEPT ![t].pc = "probe", ![t].index = 1,
                                    ![t].providers = NoReport,
                                    ![t].before = Snapshot(providers),
                                    ![t].disabled_before = disabled_providers]
    /\ UNCHANGED <<manager_vars, progress_vars, execution_state, analyses>>

\* ai_manager.generate_content("Test", max_tokens=10), made for the name at
\* the loop position
TestGeneration(t) ==
    /\ analysis[t].pc = "probe"
    /\ analysis[t].index <= Len(CheckedProviders)
    /\ call[t].pc = "idle"
    /\ call' = [call EXCEPT ![t] = [IdleCall EXCEPT !.pc = "loop", !.prompt = "Test",
                                                    !.idx = 1, !.before = Snapshot(providers)]]
    /\ analysis' = [analysis EXCEPT ![t].pc = "probing"]
    /\ UNCHANGED <<providers, fallback_order, disabled_providers, calls, status, trace>>
    /\ UNCHANGED <<progress_vars, execution_state, analyses>>

\* the test _check_ai_providers makes on the value generate_content returned
HealthStatus(test_response) ==
    IF /\ Truthy(test_response)
       /\ Len(test_response.text) > 0
       /\ ~Contains("erro", lower(test_response.text))
    THEN "healthy"
    ELSE "warning"

\* the status is stored under the name at the loop position
HealthTake(t) ==
    /\ analysis[t].pc = "probing"
    /\ call[t].pc = "done"
    /\ analysis' = [analysis EXCEPT
                       ![t].pc = "probe",
                       ![t].index = @ + 1,
                       ![t].providers[analysis[t].index] =
                           IF call[t].raised THEN "critical" ELSE HealthStatus(call[t].result)]
    /\ call' = [call EXCEPT ![t] = IdleCall]
    /\ UNCHANGED <<providers, fallback_order, disabled_providers, calls, status, trace>>
    /\ UNCHANGED <<progress_vars, execution_state, analyses>>

\* the loop is over, check_all_services returns its report
CheckEnd(t) ==
    /\ analysis[t].pc = "probe"
    /\ analysis[t].index > Len(CheckedProviders)
    /\ analysis' = [analysis EXCEPT ![t].pc = "phases"]
    /\ UNCHANGED <<manager_vars, progress_vars, execution_state, analyses>>

\* phases 2 to 6: they end normally or one of them raises
Phases(t) ==
    /\ analysis[t].pc = "phases"
    /\ \E ok \in BOOLEAN :
          analysis' = [analysis EXCEPT ![t].pc = IF ok THEN "complete" ELSE "except"]
    /\ UNCHANGED <<manager_vars, progress_vars, execution_state, analyses>>

\* self.execution_state[session_id]['status'] = 'completed' under sync_lock
\* and the return of the success report; KeyError if the key is gone
Complete(t) ==
    /\ analysis[t].pc = "complete"
    /\ LET s == analysis[t].session_id
       IN  IF execution_state[s] # NoState
           THEN /\ execution_state' = [execution_state EXCEPT ![s] = "completed"]
                /\ analysis' = [analysis EXCEPT ![t].pc = "returned", ![t].result = "report"]
           ELSE /\ analysis' = [analysis EXCEPT ![t].pc = "except"]
                /\ UNCHANGED execution_state
    /\ UNCHANGED <<manager_vars, progress_vars, analyses>>

\* the except clause: self.execution_state[session_id]['status'] = 'failed'
\* under sync_lock and the return of the emergency fallback; a KeyError
\* raised here leaves the function
Except(t) ==
    /\ analysis[t].pc = "except"
    /\ LET s == analysis[t].session_id
       IN  IF execution_state[s] # NoState
           THEN /\ execution_state' = [execution_state EXCEPT ![s] = "failed"]
                /\ analysis' = [analysis EXCEPT ![t].pc = "returned",
                                                ![t].result = "emergency_fallback"]
           ELSE /\ analysis' = [analysis EXCEPT ![t].pc = "returned", ![t].raised = TRUE]
                /\ UNCHANGED execution_state
    /\ UNCHANGED <<manager_vars, progress_vars, analyses>>

\* the caller has the result, or the exception
TakeResult(t) ==
    /\ analysis[t].pc = "returned"
    /\ analysis' = [analysis EXCEPT ![t] = IdleAnalysis]
    /\ UNCHANGED <<manager_vars, progress_vars, execution_state, analyses>>

\* reset_all_orchestrators: execution_state.clear() under sync_lock
reset_all_orchestrators ==
    /\ execution_state' = [s \in SessionIds |-> NoState]
    /\ UNCHANGED <<manager_vars, progress_vars, analysis, analyses>>

NextAnalysis ==
    \/ \E t \in {Analyst} :
          \/ execute_synchronized_analysis(t)
          \/ CheckBegin(t)
          \/ TestGeneration(t)
          \/ Skip(t)
          \/ Enter(t)
          \/ Invoke(t)
          \/ Respond(t)
          \/ RegisterFailureRead(t)
          \/ RegisterFailureWrite(t)
          \/ Exhausted(t)
          \/ HealthTake(t)
          \/ CheckEnd(t)
          \/ Phases(t)
          \/ Complete(t)
          \/ Except(t)
          \/ TakeResult(t)
    \/ reset_all_orchestrators

SpecAnalysis == InitConcurrent /\ [][NextAnalysis]_vars

---------------------------------------------------------------------------
(* C25 *)

\* the health check has just stored a status for the provider
Reported(t, i) ==
    /\ analysis[t].providers[i] = ""
    /\ analysis'[t].providers[i] # ""

\* C25: _check_ai_providers reports a named provider as 'healthy' only if
\* that provider is available in ai_manager at the time of the report; when
\* every provider is disabled or unconfigured no provider is reported healthy.
C25_HealthyOnlyIfAvailable ==
    [][\A t \in Threads : \A i \in 1..Len(CheckedProviders) :
          (Reported(t, i) /\ analysis'[t].providers[i] = "healthy") =>
              Eligible(CheckedProviders[i])
    ]_vars

---------------------------------------------------------------------------
(* C26 *)

\* the health check of thread t returns in this step
CheckReturns(t) == analysis[t].pc = "probe" /\ analysis'[t].pc = "phases"

\* C26: running a health check (check_all_services, also run at the start of
\* every synchronized analysis) leaves the provider state of ai_manager
\* unchanged: no provider's consecutive_failures, available flag or
\* disabled_providers membership differs before and after the check.
C26_HealthCheckChangesNothing ==
    [][\A t \in Threads :
          CheckReturns(t) =>
              /\ Snapshot(providers) = analysis[t].before
              /\ disabled_providers = analysis[t].disabled_before
    ]_vars

---------------------------------------------------------------------------
(* C27 *)

\* execute_synchronized_analysis of thread t ends in this step
AnalysisEnds(t) == analysis[t].pc # "returned" /\ analysis'[t].pc = "returned"

\* C27: execute_synchronized_analysis always returns a result dict, the
\* success report or the emergency fallback, and never raises, and when it
\* returns execution_state[session_id].status is 'completed' or 'failed',
\* never 'running'; also when reset_all_orchestrators runs concurrently and
\* clears execution_state.
C27_AnalysisAlwaysReturns ==
    [][\A t \in Threads :
          AnalysisEnds(t) =>
              /\ ~analysis'[t].raised
              /\ analysis'[t].result \in {"report", "emergency_fallback"}
              /\ execution_state'[analysis[t].session_id] \in {"completed", "failed"}
    ]_vars

====
